---- MODULE Spec2Model ----
(***************************************************************************)
(* Model of app/models.py: the users table with User.signup and            *)
(* User.authenticate over the Flask-SQLAlchemy session and Flask-Bcrypt,   *)
(* and the questionnaire tables (consult_forms, consult_questions,         *)
(* followup_questions) with their to_dict conversions.                     *)
(*                                                                         *)
(* Three specifications share the module:                                  *)
(*   Spec      the users table, two request sessions, signup, commit and   *)
(*             authenticate, one database statement per step;              *)
(*   SpecHash  the two bcrypt operations as functions of their inputs;     *)
(*   SpecForms the questionnaire tables, form deletion and to_dict.        *)
(* Strings that the code inspects (passwords, hash strings) are sequences  *)
(* of characters; names, emails and prompts are opaque strings.            *)
(* The timestamp columns created_at / updated_at are left out: no          *)
(* operation of the file reads them.                                       *)
(*                                                                         *)
(* What the file leaves to its libraries is modelled as they behave:       *)
(*   - db = SQLAlchemy() keeps the session defaults, so a query flushes    *)
(*     the session first (autoflush), a flush INSERTs the added objects    *)
(*     in the order they were added, and a failed flush rolls the          *)
(*     transaction back and expunges the objects it had added;             *)
(*   - the store is the PostgreSQL schema the User docstring names         *)
(*     (public.users): statements read committed rows and the rows of      *)
(*     their own transaction, unique and NOT NULL constraints are checked  *)
(*     by the statement, an INSERT waits for an uncommitted row that       *)
(*     holds its key, and a sequence value is used up by a failed INSERT;  *)
(*   - bcrypt = Bcrypt() keeps BCRYPT_HANDLE_LONG_PASSWORDS off.           *)
(***************************************************************************)
EXTENDS Naturals, Sequences, FiniteSets, TLC

VARIABLES
    users,      \* committed rows of table users
    tx,         \* tx[s]: rows INSERTed by session s's open transaction
    pending,    \* pending[s]: objects added to session s, not yet flushed
    pc,         \* pc[s]: "idle", or the operation under way in session s:
                \* "commit" or "authenticate"
    out,        \* what the operation that finished in the last step returned
                \* or raised (NoResult after a step that finished none)
    nextId,     \* next value of the users.id sequence
    plainOf,    \* history: id -> the plaintext given to the signup of the row
    pw,         \* the password last hashed
    pwHash,     \* generate_password_hash's answer for it
    cand,       \* the candidate last checked against pwHash
    verdict,    \* check_password_hash's answer for it
    forms,      \* rows of consult_forms
    questions,  \* rows of consult_questions
    followups,  \* rows of followup_questions
    seq,        \* next id of each of the three tables
    result      \* what the questionnaire operation of the last step returned

acctVars == <<users, tx, pending, pc, out, nextId, plainOf>>
hashVars == <<pw, pwHash, cand, verdict>>
formVars == <<forms, questions, followups, seq, result>>
vars == <<acctVars, hashVars, formVars>>

----------------------------------------------------------------------------
(* Bounds and input sets *)

MaxSignups == 4
ShortLen == 2
NearLimit == 1
MaxForms == 2
MaxQuestions == 2
MaxFollowups == 2

Sessions == {1, 2}
Usernames == {"alice", "bob"}
Emails == {"a@x", "b@x"}
NoneVal == "None"
OptNames == {NoneVal}
Salts == {"s1", "s2"}

\* bcrypt reads at most this many bytes of a password
BcryptMaxLen == 72

Rep(c, n) == [i \in 1..n |-> c]

\* the passwords signup is called with: empty and "a" (SpecHash hashes and
\* checks passwords of many lengths and both salts)
PwA == <<"a">>
PwAX == <<"a", "x">>
AcctPasswords == {<< >>, PwA}
AcctSalts == {"s1"}

\* the candidates authenticate is called with: "a", "ax" and 73 times "a"
CandPasswords == {PwA, PwAX, Rep("a", BcryptMaxLen + 1)}

\* the passwords of SpecHash: short ones and ones about 72 bytes long, of
\* "a"s alone or ending in "x"; the candidates: those, and those with an "x"
\* appended
HashLens == (0..ShortLen) \cup
            ((BcryptMaxLen - NearLimit)..(BcryptMaxLen + NearLimit))
HashPasswords == {Rep("a", n) : n \in HashLens} \cup
                 {Append(Rep("a", n - 1), "x") : n \in HashLens \ {0}}
HashCandidates == HashPasswords \cup {Append(p, "x") : p \in HashPasswords}

FormNames == {"intake", "followup"}
Prompts == {"where", "when"}

\* the bcrypt package of the build: releases before 5.0 truncate a password
\* longer than 72 bytes, 5.0 and later raise ValueError for it.  The file
\* pins no release, so every call may meet either.
BcryptBuilds == {"truncate", "raise"}

----------------------------------------------------------------------------
(* Credential hasher: Flask-Bcrypt with its default configuration *)

Min(a, b) == IF a <= b THEN a ELSE b

\* the key bcrypt derives the digest from
Key(password) == SubSeq(password, 1, Min(Len(password), BcryptMaxLen))

\* bcrypt.hashpw(password, salt): "$" salt "$" digest.  The digest is an
\* injective image of (salt, key): here the key itself.
hashpw(password, salt) == <<"$", salt, "$">> \o Key(password)

\* the salt a hash string embeds
SaltOf(hashString) == hashString[2]

TooLong(password, build) == build = "raise" /\ Len(password) > BcryptMaxLen

\* mutant: the password is stored as given
generate_password_hash_plain(password, salt, build) ==
    IF password = << >> \/ TooLong(password, build)
    THEN [kind |-> "ValueError"]
    ELSE [kind |-> "ok", hash |-> password]

\* bcrypt.generate_password_hash(password).decode("utf-8"): ValueError for
\* the empty password, else the hash string (ASCII bytes, which decode to
\* the same characters and are encoded back unchanged by the check).
\* [kind |-> "ok", hash |-> h]  or  [kind |-> "ValueError"]
generate_password_hash(password, salt, build) ==
    IF password = << >> \/ TooLong(password, build)
    THEN [kind |-> "ValueError"]
    ELSE [kind |-> "ok", hash |-> hashpw(password, salt)]

\* a string bcrypt accepts as a hash: it raises ValueError("Invalid salt")
\* for any other
WellFormed(hashString) ==
    /\ Len(hashString) >= 3
    /\ hashString[1] = "$"
    /\ hashString[2] \in Salts
    /\ hashString[3] = "$"

\* bcrypt.check_password_hash(pw_hash, password)
\* [kind |-> "ok", match |-> BOOLEAN]  or  [kind |-> "ValueError"]
check_password_hash(pw_hash, password, build) ==
    IF TooLong(password, build) \/ ~WellFormed(pw_hash)
    THEN [kind |-> "ValueError"]
    ELSE [kind |-> "ok", match |-> hashpw(password, SaltOf(pw_hash)) = pw_hash]

----------------------------------------------------------------------------
(* Table users *)

\* cls(username=..., email=..., password_hashed=..., ...): a transient User
NewUser(username, email, hashed, first_name, last_name) ==
    [username |-> username, email |-> email, password_hashed |-> hashed,
     first_name |-> first_name, last_name |-> last_name]

\* the row an INSERT of transient user u creates: id from the sequence,
\* has_medical_history and is_admin from their defaults
RowOf(u, id) ==
    [id |-> id, username |-> u.username, email |-> u.email,
     password_hashed |-> u.password_hashed,
     first_name |-> u.first_name, last_name |-> u.last_name,
     has_medical_history |-> FALSE, is_admin |-> FALSE]

\* mutant: users.email is not unique
UniqueClash_usernameOnly(u, r) == u.username = r.username

\* unique=True on users.username and on users.email
UniqueClash(u, r) == u.username = r.username \/ u.email = r.email

\* rows a statement of session s sees: committed rows and its own inserts
Visible(s) == users \cup tx[s]

\* rows other open transactions have inserted and not yet committed
OthersUncommitted(s) == UNION {tx[t] : t \in Sessions \ {s}}

\* mutant: uniqueness is checked against committed rows only, nothing waits
Waits_never(s, u) == FALSE

\* an INSERT of u by s waits while an uncommitted row of another transaction
\* holds u's username or email
Waits(s, u) == \E r \in OthersUncommitted(s) : UniqueClash(u, r)

\* an INSERT of u by s violates a unique index
Violates(s, u) == \E r \in Visible(s) : UniqueClash(u, r)

NoResult == [op |-> "none"]

Last(seqn) == seqn[Len(seqn)]

\* users staged in the two sessions, and INSERTs attempted so far
Staged == Len(pending[1]) + Len(pending[2])
Attempted == nextId - 1

Init ==
    /\ users = {}
    /\ tx = [s \in Sessions |-> {}]
    /\ pending = [s \in Sessions |-> << >>]
    /\ pc = [s \in Sessions |-> "idle"]
    /\ out = NoResult
    /\ nextId = 1
    /\ plainOf = << >>
    /\ pw = << >>
    /\ pwHash = [kind |-> "none"]
    /\ cand = << >>
    /\ verdict = [kind |-> "none"]
    /\ forms = {}
    /\ questions = {}
    /\ followups = {}
    /\ seq = [form |-> 1, question |-> 1, followup |-> 1]
    /\ result = NoResult

\* mutant: signup commits the row itself
signup_commits(s, username, email, password, first_name, last_name, salt, build) ==
    /\ pc[s] = "idle"
    /\ Staged + Attempted < MaxSignups
    /\ LET h == generate_password_hash(password, salt, build) IN
       IF h.kind = "ValueError"
       THEN /\ out' = [op |-> "signup", session |-> s, err |-> "ValueError"]
            /\ UNCHANGED <<users, nextId, plainOf>>
       ELSE LET user == NewUser(username, email, h.hash, first_name, last_name) IN
            /\ users' = users \cup {RowOf(user, nextId)}
            /\ nextId' = nextId + 1
            /\ plainOf' = [i \in DOMAIN plainOf \cup {nextId} |->
                              IF i = nextId THEN password ELSE plainOf[i]]
            /\ out' = [op |-> "signup", session |-> s, err |-> NoneVal,
                       ret |-> user]
    /\ UNCHANGED <<tx, pending, pc>>

\* User.signup(username, email, password, first_name, last_name)
signup(s, username, email, password, first_name, last_name, salt, build) ==
    /\ pc[s] = "idle"
    /\ Staged + Attempted < MaxSignups
    /\ LET h == generate_password_hash(password, salt, build) IN
       IF h.kind = "ValueError"
       THEN /\ out' = [op |-> "signup", session |-> s, err |-> "ValueError"]
            /\ UNCHANGED pending
       ELSE LET user == NewUser(username, email, h.hash, first_name, last_name) IN
            /\ pending' = [pending EXCEPT ![s] =
                              Append(@, [user |-> user, plain |-> password])]
            /\ out' = [op |-> "signup", session |-> s, err |-> NoneVal,
                       ret |-> user]
    /\ UNCHANGED <<users, tx, pc, nextId, plainOf>>

\* the caller's db.session.commit(): flush, then COMMIT
CallCommit(s) ==
    /\ pc[s] = "idle"
    /\ pc' = [pc EXCEPT ![s] = "commit"]
    /\ out' = NoResult
    /\ UNCHANGED <<users, tx, pending, nextId, plainOf>>

\* User.authenticate(username, password): the query autoflushes the session
CallAuthenticate(s) ==
    /\ pc[s] = "idle"
    /\ pc' = [pc EXCEPT ![s] = "authenticate"]
    /\ out' = NoResult
    /\ UNCHANGED <<users, tx, pending, nextId, plainOf>>

\* a failed INSERT: the transaction is rolled back, the objects the session
\* had added are expunged, and the operation under way raises err, which
\* carries the statement's parameters (plainOf forgets the rows rolled back)
Raise(s, err) ==
    /\ tx' = [tx EXCEPT ![s] = {}]
    /\ pending' = [pending EXCEPT ![s] = << >>]
    /\ pc' = [pc EXCEPT ![s] = "idle"]
    /\ out' = [op |-> pc[s], session |-> s, err |-> err,
               params |-> Head(pending[s]).user]
    /\ plainOf' = [i \in DOMAIN plainOf \ {r.id : r \in tx[s]} |-> plainOf[i]]

\* mutant: every INSERT is committed at once
FlushRow_autocommit(s) ==
    /\ pc[s] # "idle"
    /\ pending[s] # << >>
    /\ LET e == Head(pending[s]) IN
       IF Violates(s, e.user)
       THEN /\ Raise(s, "IntegrityError")
            /\ nextId' = nextId + 1
            /\ UNCHANGED users
       ELSE /\ users' = users \cup {RowOf(e.user, nextId)}
            /\ pending' = [pending EXCEPT ![s] = Tail(@)]
            /\ nextId' = nextId + 1
            /\ plainOf' = [i \in DOMAIN plainOf \cup {nextId} |->
                              IF i = nextId THEN e.plain ELSE plainOf[i]]
            /\ out' = NoResult
            /\ UNCHANGED <<tx, pc>>

\* flush: INSERT the first pending user of session s
FlushRow(s) ==
    /\ pc[s] # "idle"
    /\ pending[s] # << >>
    /\ LET e == Head(pending[s]) IN
       IF Violates(s, e.user)
       THEN /\ Raise(s, "IntegrityError")
            /\ nextId' = nextId + 1
            /\ UNCHANGED users
       ELSE /\ ~Waits(s, e.user)
            /\ tx' = [tx EXCEPT ![s] = @ \cup {RowOf(e.user, nextId)}]
            /\ pending' = [pending EXCEPT ![s] = Tail(@)]
            /\ nextId' = nextId + 1
            /\ plainOf' = [i \in DOMAIN plainOf \cup {nextId} |->
                              IF i = nextId THEN e.plain ELSE plainOf[i]]
            /\ out' = NoResult
            /\ UNCHANGED <<users, pc>>

\* session s is in an INSERT that waits for a row of session t
WaitsFor(s, t) ==
    /\ pc[s] # "idle"
    /\ pending[s] # << >>
    /\ ~Violates(s, Head(pending[s]).user)
    /\ \E r \in tx[t] : UniqueClash(Head(pending[s]).user, r)

\* two INSERTs wait for each other: the store aborts one of them
DeadlockAbort(s) ==
    /\ \E t \in Sessions \ {s} : WaitsFor(s, t) /\ WaitsFor(t, s)
    /\ Raise(s, "OperationalError")
    /\ UNCHANGED <<users, nextId>>

\* COMMIT, once the flush is through
DoCommit(s) ==
    /\ pc[s] = "commit"
    /\ pending[s] = << >>
    /\ users' = users \cup tx[s]
    /\ tx' = [tx EXCEPT ![s] = {}]
    /\ pc' = [pc EXCEPT ![s] = "idle"]
    /\ out' = [op |-> "commit", session |-> s, err |-> NoneVal]
    /\ UNCHANGED <<pending, nextId, plainOf>>

\* mutant: the query filters on the email column
ByUsername_email(s, username) == {r \in Visible(s) : r.email = username}

\* cls.query.filter_by(username=username): the rows the query matches
ByUsername(s, username) == {r \in Visible(s) : r.username = username}

\* .first(): any one of the matching rows, or none when there is none
First(rows) == IF rows = {} THEN {{}} ELSE {{r} : r \in rows}

\* what authenticate returns when .first() gave the rows of found (one row,
\* or none)
AuthResult(s, username, password, found, build) ==
    LET base == [op |-> "authenticate", session |-> s,
                 username |-> username, password |-> password] IN
    IF found = {}
    THEN base @@ [err |-> NoneVal, ret |-> [tag |-> "False"]]
    ELSE LET user == CHOOSE r \in found : TRUE
             c == check_password_hash(user.password_hashed, password, build) IN
         IF c.kind = "ValueError"
         THEN base @@ [err |-> "ValueError"]
         ELSE IF c.match
         THEN base @@ [err |-> NoneVal, ret |-> [tag |-> "User", user |-> user]]
         ELSE base @@ [err |-> NoneVal, ret |-> [tag |-> "False"]]

\* .first() and the password check, once the autoflush is through
DoQuery(s, username, password, build) ==
    /\ pc[s] = "authenticate"
    /\ pending[s] = << >>
    /\ \E found \in First(ByUsername(s, username)) :
          out' = AuthResult(s, username, password, found, build)
    /\ pc' = [pc EXCEPT ![s] = "idle"]
    /\ UNCHANGED <<users, tx, pending, nextId, plainOf>>

Next ==
    \/ \E s \in Sessions, u \in Usernames, e \in Emails, p \in AcctPasswords,
          f \in OptNames, l \in OptNames, salt \in AcctSalts, b \in BcryptBuilds :
          signup(s, u, e, p, f, l, salt, b) /\ UNCHANGED <<hashVars, formVars>>
    \/ \E s \in Sessions : CallCommit(s) /\ UNCHANGED <<hashVars, formVars>>
    \/ \E s \in Sessions : CallAuthenticate(s) /\ UNCHANGED <<hashVars, formVars>>
    \/ \E s \in Sessions : FlushRow(s) /\ UNCHANGED <<hashVars, formVars>>
    \/ \E s \in Sessions : DeadlockAbort(s) /\ UNCHANGED <<hashVars, formVars>>
    \/ \E s \in Sessions : DoCommit(s) /\ UNCHANGED <<hashVars, formVars>>
    \/ \E s \in Sessions, u \in Usernames, p \in CandPasswords, b \in BcryptBuilds :
          DoQuery(s, u, p, b) /\ UNCHANGED <<hashVars, formVars>>

Spec == Init /\ [][Next]_vars

----------------------------------------------------------------------------
(* SpecHash: the two bcrypt operations on their own *)

\* hashed_pwd = bcrypt.generate_password_hash(password).decode("utf-8")
HashPassword(password, salt, build) ==
    /\ pw' = password
    /\ pwHash' = generate_password_hash(password, salt, build)
    /\ cand' = << >>
    /\ verdict' = [kind |-> "none"]

\* bcrypt.check_password_hash(user.password_hashed, password)
CheckPassword(password, build) ==
    /\ pwHash.kind = "ok"
    /\ cand' = password
    /\ verdict' = check_password_hash(pwHash.hash, password, build)
    /\ UNCHANGED <<pw, pwHash>>

NextHash ==
    \/ \E p \in HashPasswords, salt \in Salts, b \in BcryptBuilds :
          HashPassword(p, salt, b) /\ UNCHANGED <<acctVars, formVars>>
    \/ \E c \in HashCandidates, b \in BcryptBuilds :
          CheckPassword(c, b) /\ UNCHANGED <<acctVars, formVars>>

SpecHash == Init /\ [][NextHash]_vars

----------------------------------------------------------------------------
(* SpecForms: consult_forms, consult_questions, followup_questions *)

Ids(rows) == {r.id : r \in rows}

\* ConsultForm(name=...), add, commit: name is unique
AddForm(name) ==
    /\ seq.form <= MaxForms
    /\ seq' = [seq EXCEPT !.form = @ + 1]
    /\ IF \E f \in forms : f.name = name
       THEN /\ result' = [op |-> "add_form", err |-> "IntegrityError"]
            /\ UNCHANGED forms
       ELSE /\ forms' = forms \cup {[id |-> seq.form, name |-> name]}
            /\ result' = [op |-> "add_form", err |-> NoneVal]
    /\ UNCHANGED <<questions, followups>>

\* ConsultQuestion(prompt=..., form_id=...), add, commit: form_id references
\* consult_forms.id
AddQuestion(prompt, form_id) ==
    /\ seq.question <= MaxQuestions
    /\ seq' = [seq EXCEPT !.question = @ + 1]
    /\ IF form_id \notin Ids(forms)
       THEN /\ result' = [op |-> "add_question", err |-> "IntegrityError"]
            /\ UNCHANGED questions
       ELSE /\ questions' = questions \cup
                   {[id |-> seq.question, prompt |-> prompt, form_id |-> form_id]}
            /\ result' = [op |-> "add_question", err |-> NoneVal]
    /\ UNCHANGED <<forms, followups>>

\* FollowupQuestions(prompt=..., parent_question_id=...), add, commit:
\* parent_question_id references consult_questions.id
AddFollowup(prompt, parent_question_id) ==
    /\ seq.followup <= MaxFollowups
    /\ seq' = [seq EXCEPT !.followup = @ + 1]
    /\ IF parent_question_id \notin Ids(questions)
       THEN /\ result' = [op |-> "add_followup", err |-> "IntegrityError"]
            /\ UNCHANGED followups
       ELSE /\ followups' = followups \cup
                   {[id |-> seq.followup, prompt |-> prompt,
                     parent_question_id |-> parent_question_id]}
            /\ result' = [op |-> "add_followup", err |-> NoneVal]
    /\ UNCHANGED <<forms, questions>>

\* ConsultForm.questions: the questions of form f
QuestionsOf(f) == {q \in questions : q.form_id = f.id}

\* ConsultQuestion.followups: the followups of question q
FollowupsOf(q) == {fu \in followups : fu.parent_question_id = q.id}

\* cascade="all, delete-orphan" on ConsultForm.questions: the questions a
\* delete of form f deletes with it
CascadeDeleted(f) == QuestionsOf(f)

\* ConsultQuestion.followups declares no delete cascade: the unit of work
\* detaches the followups of a deleted question by an UPDATE that sets their
\* parent_question_id to NULL
Detached(qs) == UNION {FollowupsOf(q) : q \in qs}

\* db.session.delete(form), commit.  The UPDATE of a detached followup
\* violates nullable=False on parent_question_id; the flush then fails and
\* the transaction is rolled back.
DeleteForm(f) ==
    /\ f \in forms
    /\ IF Detached(CascadeDeleted(f)) # {}
       THEN /\ result' = [op |-> "delete_form", form |-> f.id,
                          err |-> "IntegrityError"]
            /\ UNCHANGED <<forms, questions, followups>>
       ELSE /\ forms' = forms \ {f}
            /\ questions' = questions \ CascadeDeleted(f)
            /\ result' = [op |-> "delete_form", form |-> f.id, err |-> NoneVal]
            /\ UNCHANGED followups
    /\ UNCHANGED seq

\* FollowupQuestions.to_dict
FollowupQuestions_to_dict(fu) ==
    [id |-> fu.id, prompt |-> fu.prompt,
     parent_question_id |-> fu.parent_question_id]

\* the orders in which a relationship without order_by may load rows
Orders(rows) ==
    {o \in [1..Cardinality(rows) -> rows] :
        \A i, j \in 1..Cardinality(rows) : i # j => o[i] # o[j]}

\* mutant: the parent's followups are left out
ConsultQuestion_to_dict_flat(q, o) ==
    [id |-> q.id, prompt |-> q.prompt, form_id |-> q.form_id,
     followups |-> << >>]

\* ConsultQuestion.to_dict, the followups loaded in order o
ConsultQuestion_to_dict(q, o) ==
    [id |-> q.id, prompt |-> q.prompt, form_id |-> q.form_id,
     followups |-> [i \in DOMAIN o |-> FollowupQuestions_to_dict(o[i])]]

ToDict(q) ==
    /\ q \in questions
    /\ \E o \in Orders(FollowupsOf(q)) :
          result' = [op |-> "to_dict", question |-> q.id,
                     ret |-> ConsultQuestion_to_dict(q, o)]
    /\ UNCHANGED <<forms, questions, followups, seq>>

NextForms ==
    \/ \E n \in FormNames : AddForm(n) /\ UNCHANGED <<acctVars, hashVars>>
    \/ \E p \in Prompts, f \in 1..MaxForms :
          AddQuestion(p, f) /\ UNCHANGED <<acctVars, hashVars>>
    \/ \E p \in Prompts, q \in 1..MaxQuestions :
          AddFollowup(p, q) /\ UNCHANGED <<acctVars, hashVars>>
    \/ \E f \in forms : DeleteForm(f) /\ UNCHANGED <<acctVars, hashVars>>
    \/ \E q \in questions : ToDict(q) /\ UNCHANGED <<acctVars, hashVars>>

SpecForms == Init /\ [][NextForms]_vars

----------------------------------------------------------------------------
(* Properties of the users table (specification Spec) *)

\* the step finishes an authenticate whose autoflush went through: the
\* query ran, and out' carries its arguments
QueryStep == out'.op = "authenticate" /\ pending[out'.session] = << >>

\* the step ends an operation by raising err
Raised(err) == out'.op # "none" /\ out'.err = err

\* the step is taken by session s
StepOf(s) == pc'[s] # pc[s] \/ pending'[s] # pending[s]

\* the step is an INSERT attempt of session s, for its first pending user
InsertOf(s) == pc[s] # "idle" /\ pending'[s] # pending[s]

\* candidate verifies against the hash string
Verifies(hashString, candidate) ==
    hashpw(candidate, SaltOf(hashString)) = hashString

NoDuplicates(rows) ==
    \A r1, r2 \in rows :
        r1 # r2 => r1.username # r2.username /\ r1.email # r2.email

\* C1: once a signup of (username, email, password) is committed, an
\* authenticate(username, password) that runs with nothing left to flush
\* returns that user: its username is the one given, and its password_hashed
\* is not the plaintext.
C1_SignupCommitAuthenticate ==
    [][\A r \in users :
         (/\ QueryStep
          /\ out'.username = r.username
          /\ out'.password = plainOf[r.id])
         => /\ out'.err = NoneVal
            /\ out'.ret = [tag |-> "User", user |-> r]
            /\ out'.ret.user.username = out'.username
            /\ out'.ret.user.password_hashed # out'.password]_vars

C1_Witness ==
    /\ out.op = "authenticate"
    /\ out.err = NoneVal
    /\ out.ret.tag = "User"
    /\ out.ret.user \in users
    /\ plainOf[out.ret.user.id] = out.password
    /\ out.ret.user.username = out.username

\* what authenticate is to return, by the rows session s sees
Matching(s, username, password) ==
    {r \in Visible(s) : r.username = username
                        /\ Verifies(r.password_hashed, password)}

\* C2 as stated: every authenticate ends without an error, with the stored
\* user when one of that username exists and the password verifies, and
\* with false otherwise.
C2_AlwaysUserOrFalse ==
    [][out'.op = "authenticate"
         => /\ out'.err = NoneVal
            /\ LET m == Matching(out'.session, out'.username, out'.password) IN
               IF m = {} THEN out'.ret = [tag |-> "False"]
               ELSE out'.ret.tag = "User" /\ out'.ret.user \in m]_vars

\* What authenticate does do: when its autoflush went through it returns the
\* user of that username the session sees if the password verifies and
\* false otherwise, and raises ValueError only for a password over 72 bytes
\* and an existing username; anything else it raises comes from the INSERT
\* of a staged user during the autoflush.
C2_UserOrFalseAfterFlush ==
    [][out'.op = "authenticate"
         => IF QueryStep
            THEN LET s == out'.session
                     m == Matching(s, out'.username, out'.password) IN
                 \/ /\ out'.err = NoneVal
                    /\ m # {}
                    /\ out'.ret.tag = "User"
                    /\ out'.ret.user \in m
                 \/ /\ out'.err = NoneVal
                    /\ m = {}
                    /\ out'.ret = [tag |-> "False"]
                 \/ /\ out'.err = "ValueError"
                    /\ Len(out'.password) > BcryptMaxLen
                    /\ \E r \in Visible(s) : r.username = out'.username
            ELSE /\ out'.err \in {"IntegrityError", "OperationalError"}
                 /\ InsertOf(out'.session)
                 /\ out'.params = Head(pending[out'.session]).user]_vars

\* C3: a commit that inserts a user whose email a committed row of another
\* username holds fails with a uniqueness violation and persists nothing:
\* the store is unchanged and still holds exactly that one row for the
\* email.  A commit that inserts a user clashing with no row succeeds.
C3_SecondSameEmailFails ==
    [][\A s \in Sessions :
         (InsertOf(s) /\ pc[s] = "commit")
         => LET u == Head(pending[s]).user IN
            /\ (\E r \in users : r.email = u.email /\ r.username # u.username)
               => /\ out' = [op |-> "commit", session |-> s,
                             err |-> "IntegrityError", params |-> u]
                  /\ users' = users
                  /\ tx'[s] = {}
                  /\ pending'[s] = << >>
                  /\ Cardinality({r \in users' : r.email = u.email}) = 1
            /\ (\A t \in Sessions : \A r \in users \cup tx[t] : ~UniqueClash(u, r))
               => /\ out' = NoResult
                  /\ \E r \in tx'[s] : r.username = u.username
                                       /\ r.email = u.email]_vars

C3_Witness ==
    /\ out.op = "commit"
    /\ out.err = "IntegrityError"
    /\ \E r \in users : r.email = out.params.email
                        /\ r.username # out.params.username
    /\ ~ \E r \in users : r.username = out.params.username

\* every row inserted, committed or not
AllRows == users \cup UNION {tx[s] : s \in Sessions}

\* C4: whatever the interleaving, no two rows, committed or inserted by an
\* open transaction, share a username or an email; COMMIT of the rows a
\* transaction inserted never fails; and an INSERT fails with a uniqueness
\* violation exactly when a row the session sees, committed before or
\* inserted by itself, holds the username or the email.  So of two racing
\* signups of one username or email the one whose INSERT comes first
\* commits, and the other gets the violation.
C4_RaceResolvedByStore ==
    [][/\ NoDuplicates(users')
       /\ NoDuplicates(AllRows')
       /\ \A s \in Sessions :
            /\ (pc[s] = "commit" /\ pending[s] = << >> /\ StepOf(s))
               => /\ users' = users \cup tx[s]
                  /\ out' = [op |-> "commit", session |-> s, err |-> NoneVal]
            /\ InsertOf(s)
               => LET u == Head(pending[s]).user IN
                  IF \E r \in Visible(s) : UniqueClash(u, r)
                  THEN /\ Raised("IntegrityError")
                       /\ users' = users
                       /\ tx'[s] = {}
                  ELSE IF \E r \in OthersUncommitted(s) : UniqueClash(u, r)
                  THEN /\ Raised("OperationalError")
                       /\ users' = users
                       /\ tx'[s] = {}
                  ELSE /\ out' = NoResult
                       /\ \E r \in tx'[s] : r.username = u.username]_vars

\* both requests have signed up one username and are committing: one has
\* inserted its row, the other's INSERT waits for it
C4_Witness ==
    \E s, t \in Sessions :
        /\ s # t
        /\ pc[s] = "commit"
        /\ pc[t] = "commit"
        /\ pending[t] # << >>
        /\ \E r \in tx[s] : r.username = Head(pending[t]).user.username

\* the part of C5 that holds as stated: a signup leaves the committed rows
\* and every open transaction as they are, raises no uniqueness violation,
\* and, unless the hasher rejects the password, stages the user it returns
SignupOnlyStages ==
    out'.op = "signup"
    => /\ users' = users
       /\ tx' = tx
       /\ nextId' = nextId
       /\ out'.err \in {NoneVal, "ValueError"}
       /\ out'.err = "ValueError" => pending' = pending
       /\ out'.err = NoneVal
          => /\ Len(pending'[out'.session]) = Len(pending[out'.session]) + 1
             /\ Last(pending'[out'.session]).user = out'.ret
             /\ \A t \in Sessions \ {out'.session} : pending'[t] = pending[t]

C8_UniqueAndHashed ==
    /\ NoDuplicates(users)
    /\ \A r \in users : r.password_hashed # plainOf[r.id]

\* two rows are committed and a commit has just failed
C8_Witness ==
    /\ Cardinality(users) >= 2
    /\ out.op = "commit"
    /\ out.err = "IntegrityError"

\* C10: no step of an authenticate, the autoflush included, changes the
\* committed rows, whatever it returns or raises.
C10_AuthenticateReadOnly ==
    [][\A s \in Sessions :
         (/\ StepOf(s)
          /\ \/ pc[s] = "authenticate"
             \/ pc'[s] = "authenticate")
         => users' = users]_vars

\* an authenticate has returned in a session whose staged signup its
\* autoflush inserted: the row is in the open transaction, not committed
C10_Witness ==
    /\ out.op = "authenticate"
    /\ "ret" \in DOMAIN out
    /\ tx[out.session] # {}
    /\ tx[out.session] \cap users = {}

----------------------------------------------------------------------------
(* Properties of the hasher (specification SpecHash) *)

\* C7 as stated: for every password p that was hashed, p verifies against
\* hash(p) and p + "x" does not.
C7_VerifyExact ==
    (pwHash.kind = "ok" /\ verdict.kind # "none")
    => /\ cand = pw => verdict = [kind |-> "ok", match |-> TRUE]
       /\ cand = Append(pw, "x") => verdict = [kind |-> "ok", match |-> FALSE]

----------------------------------------------------------------------------
(* Properties of the questionnaire tables (specification SpecForms) *)

\* C6 as stated: a delete of a form removes the form's questions and leaves
\* every followup row in place.
C6_DeleteCascadesAndOrphans ==
    [][result'.op = "delete_form"
         => /\ \A q \in questions' : q.form_id # result'.form
            /\ followups' = followups]_vars

\* C9: to_dict of a question returns the question's id, prompt and form_id
\* and a followups list with exactly one map per stored followup of the
\* question, each with that row's id, prompt and parent_question_id, the
\* last being the question's id.
C9_ToDictListsFollowups ==
    result.op = "to_dict"
    => \E q \in questions :
         /\ q.id = result.question
         /\ DOMAIN result.ret = {"id", "prompt", "form_id", "followups"}
         /\ result.ret.id = q.id
         /\ result.ret.prompt = q.prompt
         /\ result.ret.form_id = q.form_id
         /\ LET stored == {fu \in followups : fu.parent_question_id = q.id}
                list == result.ret.followups IN
            /\ Len(list) = Cardinality(stored)
            /\ {list[i] : i \in 1..Len(list)} =
                  {[id |-> fu.id, prompt |-> fu.prompt,
                    parent_question_id |-> fu.parent_question_id] : fu \in stored}
            /\ \A i \in 1..Len(list) : list[i].parent_question_id = q.id

\* to_dict has returned for a question with two followups
C9_Witness ==
    /\ result.op = "to_dict"
    /\ Len(result.ret.followups) = 2

====
